---- MODULE Spec2Model ----
(***************************************************************************)
(* montecarlo.py: the driver main(), the table pipeline (DatFile, SDFile)  *)
(* and the scalar pipeline (InpFile, Effects).                             *)
(*                                                                         *)
(* Text is modelled character by character: a line is a sequence of        *)
(* one-character strings, a file is a sequence of lines.  A float is a     *)
(* fixed-point integer counting hundredths (Unit), so 5.0 is 500.  Python  *)
(* 2 integer division (n/6, n/2) is \div.  An uncaught exception or        *)
(* sys.exit() ends the run: err records which, pc becomes "abort".         *)
(***************************************************************************)
EXTENDS Integers, Sequences, FiniteSets, TLC

\* ------------------------------------------------------------------ bounds

\* Largest number of data lines a generated table file holds.
MaxData == 25
\* Largest number of non-data lines ahead of a table file's data lines.
MaxHeader == 1
\* Largest number of lines of a freely mixed table file.
MaxMix == 7
\* Largest number of names in betafiles.txt.
MaxBeta == 1
\* Largest number of names in the inpfiles argument.
MaxInp == 2
\* Largest number of lines of a scalar (.inp) file.
MaxInpLines == 1
\* Largest number of key,sd lines in effect_mc.txt.
MaxKeys == 2

\* ------------------------------------------------------- program constants

\* Data lines per block: the 6 of n_line/6.
BlockSize == 6
\* The 2 of num_blocks/2.
RowDiv == 2
\* The 2 of block_num%2.
RowMod == 2
\* Precision of InpFile's '{:<8.6f}'.
InpPrec == 6
\* Width of InpFile's '{:<8.6f}'.
InpWidth == 8

\* A float counts hundredths.
Unit == 100

\* ------------------------------------------------------------------- text

DigitChars == <<"0", "1", "2", "3", "4", "5", "6", "7", "8", "9">>

\* str.isdigit on one character
isdigit(c) == \E d \in 1..10 : DigitChars[d] = c

DigitVal(c) == (CHOOSE d \in 1..10 : DigitChars[d] = c) - 1

IsSpace(c) == c = " "

RECURSIVE SplitAcc(_, _, _, _)
SplitAcc(line, i, cur, acc) ==
    IF i > Len(line)
    THEN IF cur = <<>> THEN acc ELSE Append(acc, cur)
    ELSE IF IsSpace(line[i])
         THEN SplitAcc(line, i + 1, <<>>,
                       IF cur = <<>> THEN acc ELSE Append(acc, cur))
         ELSE SplitAcc(line, i + 1, Append(cur, line[i]), acc)

\* str.split(): the maximal runs of non-whitespace characters
split(line) == SplitAcc(line, 1, <<>>, <<>>)

\* line.find(key) != -1: key occurs in line as a substring
find(line, key) ==
    \E s \in 0..(Len(line) - Len(key)) :
        \A j \in 1..Len(key) : line[s + j] = key[j]

\* line.split(','): the fields between commas (empty fields kept)
RECURSIVE SplitCommaAcc(_, _, _, _)
SplitCommaAcc(line, i, cur, acc) ==
    IF i > Len(line)
    THEN Append(acc, cur)
    ELSE IF line[i] = ","
         THEN SplitCommaAcc(line, i + 1, <<>>, Append(acc, cur))
         ELSE SplitCommaAcc(line, i + 1, Append(cur, line[i]), acc)

split_comma(line) == SplitCommaAcc(line, 1, <<>>, <<>>)

Spaces(n) == [i \in 1..n |-> " "]

Tail2(s) == IF Len(s) = 0 THEN <<>> ELSE Tail(s)

\* ----------------------------------------------------------------- floats

\* Position of the first "." of a token, or Len + 1
DotPos(tok) ==
    IF \E i \in 1..Len(tok) : tok[i] = "."
    THEN CHOOSE i \in 1..Len(tok) :
             tok[i] = "." /\ \A j \in 1..(i - 1) : tok[j] # "."
    ELSE Len(tok) + 1

Unsigned(tok) == IF Len(tok) > 0 /\ tok[1] = "-" THEN Tail(tok) ELSE tok

\* float(tok) succeeds: [-]digits[.digits] with at least one digit
CanFloat(tok) ==
    LET u == Unsigned(tok)
        d == DotPos(u)
    IN  /\ \A i \in 1..Len(u) : i # d => isdigit(u[i])
        /\ \E i \in 1..Len(u) : i # d

RECURSIVE DigitsVal(_, _, _)
DigitsVal(s, i, acc) ==
    IF i > Len(s) THEN acc ELSE DigitsVal(s, i + 1, 10 * acc + DigitVal(s[i]))

\* float(tok) in hundredths (digits past the second decimal are dropped)
float(tok) ==
    LET u    == Unsigned(tok)
        d    == DotPos(u)
        ip   == DigitsVal(SubSeq(u, 1, d - 1), 1, 0)
        fr   == SubSeq(u, d + 1, Len(u))
        f1   == IF Len(fr) >= 1 THEN DigitVal(fr[1]) ELSE 0
        f2   == IF Len(fr) >= 2 THEN DigitVal(fr[2]) ELSE 0
        mag  == ip * Unit + 10 * f1 + f2
    IN  IF Len(tok) > 0 /\ tok[1] = "-" THEN 0 - mag ELSE mag

\* a * b of two floats
fmul(a, b) ==
    LET p == a * b
    IN  IF p >= 0 THEN p \div Unit ELSE 0 - ((0 - p) \div Unit)

RECURSIVE NatChars(_)
NatChars(n) ==
    IF n < 10 THEN <<DigitChars[n + 1]>>
    ELSE Append(NatChars(n \div 10), DigitChars[(n % 10) + 1])

Pow10(k) == IF k = 0 THEN 1 ELSE IF k = 1 THEN 10 ELSE 100

\* |v| rounded to prec decimals (prec < 2), ties to even, in units of 10^-prec
RoundTo(mag, prec) ==
    LET step == Pow10(2 - prec)
        q    == mag \div step
        r    == mag % step
    IN  IF 2 * r > step \/ (2 * r = step /\ q % 2 = 1) THEN q + 1 ELSE q

\* '{:<width.precf}'.format(v)
format_float(v, width, prec) ==
    LET mag    == IF v < 0 THEN 0 - v ELSE v
        scaled == IF prec >= 2 THEN mag ELSE RoundTo(mag, prec)
        shown  == IF prec >= 2 THEN 2 ELSE prec
        ip     == scaled \div Pow10(shown)
        fp     == scaled % Pow10(shown)
        fchars == IF shown = 0 THEN <<>>
                  ELSE IF shown = 1 THEN <<DigitChars[fp + 1]>>
                  ELSE <<DigitChars[(fp \div 10) + 1], DigitChars[(fp % 10) + 1]>>
        zeros  == IF prec > 2 THEN [i \in 1..(prec - 2) |-> "0"] ELSE <<>>
        body   == (IF v < 0 THEN <<"-">> ELSE <<>>)
                  \o NatChars(ip)
                  \o (IF prec > 0 THEN <<".">> ELSE <<>>)
                  \o fchars \o zeros
    IN  IF Len(body) >= width THEN body ELSE body \o Spaces(width - Len(body))


\* ------------------------------------------------------------ python values

\* None, and a value that is not None
None == [some |-> FALSE, val |-> 0]
Some(v) == [some |-> TRUE, val |-> v]

\* The draws of the normal sampler the model tries (-1.0 and 0.5).
Samples == {0 - Unit, Unit \div 2}

\* --------------------------------------------------------------- SDFile

\* is_data_line without the test of the first character
is_data_line_nonempty(line) == Len(line) > 0

\* is_data_line(line), line a list of tokens
is_data_line(line) == Len(line) > 0 /\ isdigit(line[1][1])

\* The loop of _set_block_nums from line i (1-based) on, n_line data lines
\* seen so far: the block_nums list and the final n_line.
RECURSIVE SetBlockNumsFrom(_, _, _, _)
SetBlockNumsFrom(lines, i, n_line, block_nums) ==
    IF i > Len(lines)
    THEN [block_nums |-> block_nums, n_line |-> n_line]
    ELSE IF is_data_line(split(lines[i]))
         THEN SetBlockNumsFrom(lines, i + 1, n_line + 1,
                  [block_nums EXCEPT ![i] = n_line \div BlockSize])
         ELSE SetBlockNumsFrom(lines, i + 1, n_line, block_nums)

\* _set_block_nums with num_blocks rounded up
SDFile_set_block_nums_ceil(lines) ==
    LET r == SetBlockNumsFrom(lines, 1, 0, [i \in 1..Len(lines) |-> 0 - 1])
    IN  [block_nums |-> r.block_nums,
         num_blocks |-> (r.n_line + BlockSize - 1) \div BlockSize]

\* SDFile._set_block_nums: block_nums starts as [-1]*len(lines)
SDFile_set_block_nums(lines) ==
    LET r == SetBlockNumsFrom(lines, 1, 0, [i \in 1..Len(lines) |-> 0 - 1])
    IN  [block_nums |-> r.block_nums, num_blocks |-> r.n_line \div BlockSize]

\* _count_cols falling back to no columns when there is no data line
SDFile_count_cols_default(lines) ==
    IF \E i \in 1..Len(lines) : is_data_line(split(lines[i]))
    THEN LET f == CHOOSE i \in 1..Len(lines) :
                      /\ is_data_line(split(lines[i]))
                      /\ \A j \in 1..(i - 1) : ~is_data_line(split(lines[j]))
         IN  Some(Len(split(lines[f])) - 1)
    ELSE Some(0)

\* SDFile._count_cols: tokens - 1 of the first data line, None without one
SDFile_count_cols(lines) ==
    IF \E i \in 1..Len(lines) : is_data_line(split(lines[i]))
    THEN LET f == CHOOSE i \in 1..Len(lines) :
                      /\ is_data_line(split(lines[i]))
                      /\ \A j \in 1..(i - 1) : ~is_data_line(split(lines[j]))
         IN  Some(Len(split(lines[f])) - 1)
    ELSE None

\* Number of rows of the matrix _generate_rnd builds
RndRows(num_blocks) == num_blocks \div RowDiv

\* SDFile._generate_rnd: the matrices it can return (zeros, or any draws)
SDFile_generate_rnd(zero_run, num_blocks, cols) ==
    IF zero_run
    THEN {[r \in 1..RndRows(num_blocks) |-> [c \in 1..cols |-> 0]]}
    ELSE [1..RndRows(num_blocks) -> [1..cols -> Samples]]

\* The row index taken as the block number itself
RowIndex_full(block_num) == IF block_num < 0 THEN 0 ELSE block_num

\* The row index sd_list uses: block_num % 2 (Python's %, never negative)
RowIndex(block_num) == block_num % RowMod

\* First position of sds whose product float(sd)*rnd[row,i] raises, or 0
FirstBad(sds, rnd, row, cols) ==
    LET bad(i) == \/ ~CanFloat(sds[i])
                  \/ row + 1 > Len(rnd)
                  \/ i > cols
    IN  IF \E i \in 1..Len(sds) : bad(i)
        THEN CHOOSE i \in 1..Len(sds) : bad(i) /\ \A j \in 1..(i - 1) : ~bad(j)
        ELSE 0

\* get_block_num computed from the line index
SDFile_get_block_num_byline(sdfile, line_num) == line_num \div BlockSize

\* SDFile.get_block_num(line_num), line_num 0-based and in range
SDFile_get_block_num(sdfile, line_num) == sdfile.block_nums[line_num + 1]

\* SDFile.sd_list(line_num), line_num 0-based.  sel is what the call looked
\* up: the block number, the row index, and whether a matrix cell was read.
SDFile_sd_list(sdfile, line_num) ==
    IF line_num >= Len(sdfile.block_nums)
    THEN [err |-> "IndexError", sds |-> <<>>,
          sel |-> [called |-> TRUE, line_num |-> line_num, found |-> FALSE,
                   block_num |-> 0, row |-> 0, read |-> FALSE]]
    ELSE LET block_num == SDFile_get_block_num(sdfile, line_num)
             sds       == Tail2(split(sdfile.lines[line_num + 1]))
             row       == RowIndex(block_num)
             b         == FirstBad(sds, sdfile.rnd, row, sdfile.cols.val)
             ok(i)     == CanFloat(sds[i]) /\ row + 1 <= Len(sdfile.rnd)
                          /\ i <= sdfile.cols.val
             sel       == [called |-> TRUE, line_num |-> line_num,
                           found |-> TRUE, block_num |-> block_num,
                           row |-> row,
                           read |-> \E i \in 1..Len(sds) :
                                        ok(i) /\ (b = 0 \/ i < b)]
         IN  IF b = 0
             THEN [err |-> "none",
                   sds |-> [i \in 1..Len(sds) |->
                               fmul(float(sds[i]), sdfile.rnd[row + 1][i])],
                   sel |-> sel]
             ELSE [err |-> IF ~CanFloat(sds[b]) THEN "ValueError"
                           ELSE "IndexError",
                   sds |-> <<>>, sel |-> sel]

NoSel == [called |-> FALSE, line_num |-> 0, found |-> FALSE, block_num |-> 0,
          row |-> 0, read |-> FALSE]

\* --------------------------------------------------------------- VFile

\* frmt_str.format(*out_list) for a DatFile template: fails with fewer
\* values than fields, ignores values past the last field
format_template(frmt, out_list) ==
    LET field(i) == format_float(out_list[i], frmt.width, frmt.prec)
                    \o Spaces(frmt.nsp)
        RECURSIVE Fields(_)
        Fields(i) == IF i > frmt.cols THEN <<>> ELSE field(i) \o Fields(i + 1)
    IN  Spaces(frmt.lead) \o Fields(1)

\* VFile.format_line: the lines list after lines[line_num] = formatted
format_line(lines, frmt, out_list, line_num) ==
    [lines EXCEPT ![line_num + 1] = format_template(frmt, out_list)]

\* the table's values varied the way the scalar pipeline varies
zip_add_mul(means, sds) ==
    LET n == IF Len(means) < Len(sds) THEN Len(means) ELSE Len(sds)
    IN  [i \in 1..n |-> means[i] + fmul(sds[i], means[i])]

\* [m + sd for m,sd in zip(means,sds)]: as long as the shorter list
zip_add(means, sds) ==
    LET n == IF Len(means) < Len(sds) THEN Len(means) ELSE Len(sds)
    IN  [i \in 1..n |-> means[i] + sds[i]]

\* DatFile.vary_line(line_num): the outcome, the lines list after it, the
\* local varied and sd_list's lookup
DatFile_vary_line(lines, sdfile, frmt, line_num) ==
    LET means == split(lines[line_num + 1])
    IN  IF ~is_data_line(means)
        THEN [err |-> "none", lines |-> lines, varied |-> <<>>, sel |-> NoSel]
        ELSE LET r    == SDFile_sd_list(sdfile, line_num)
                 toks == Tail(means)
             IN  IF r.err # "none"
                 THEN [err |-> r.err, lines |-> lines, varied |-> <<>>,
                       sel |-> r.sel]
                 ELSE IF \E i \in 1..Len(toks) : ~CanFloat(toks[i])
                 THEN [err |-> "ValueError", lines |-> lines, varied |-> <<>>,
                       sel |-> r.sel]
                 ELSE LET varied == zip_add([i \in 1..Len(toks) |->
                                                float(toks[i])], r.sds)
                      IN  IF Len(varied) < frmt.cols
                          THEN [err |-> "IndexError", lines |-> lines,
                                varied |-> varied, sel |-> r.sel]
                          ELSE [err |-> "none",
                                lines |-> format_line(lines, frmt, varied,
                                                      line_num),
                                varied |-> varied, sel |-> r.sel]


\* SDFile.__init__: the objects it can build, or the exception it raises
\* (np.zeros and np.random.randn reject the shape (rows, None))
SDFile_init(lines, zero_run) ==
    LET bn   == SDFile_set_block_nums(lines)
        cols == SDFile_count_cols(lines)
    IN  IF ~cols.some
        THEN {[err |-> "TypeError",
               sdfile |-> [lines |-> lines, block_nums |-> bn.block_nums,
                           num_blocks |-> bn.num_blocks, cols |-> cols,
                           rnd |-> <<>>]]}
        ELSE {[err |-> "none",
               sdfile |-> [lines |-> lines, block_nums |-> bn.block_nums,
                           num_blocks |-> bn.num_blocks, cols |-> cols,
                           rnd |-> rnd]] :
                 rnd \in SDFile_generate_rnd(zero_run, bn.num_blocks, cols.val)}

\* -------------------------------------------------------------- Effects

\* Effects._generate_rnd: [0]*size, or randn(size), which rejects size < 0
Effects_generate_rnd(zero_run, lines) ==
    LET size == Len(lines) - 1
    IN  IF zero_run
        THEN {[err |-> "none", rnd |-> [i \in 1..size |-> 0]]}
        ELSE IF size < 0
             THEN {[err |-> "ValueError", rnd |-> <<>>]}
             ELSE {[err |-> "none", rnd |-> r] : r \in [1..size -> Samples]}

\* The loop of _generate_pairs from sd_lines[i] on; d is sd_pairs so far
RECURSIVE PairsFrom(_, _, _, _)
PairsFrom(sd_lines, i, rnd, d) ==
    IF i > Len(sd_lines)
    THEN [err |-> "none", sd_pairs |-> d]
    ELSE LET f == split_comma(sd_lines[i])
         IN  IF Len(f) # 2 \/ ~CanFloat(f[2])
             THEN [err |-> "ValueError", sd_pairs |-> d]
             ELSE PairsFrom(sd_lines, i + 1, rnd,
                      [k \in (DOMAIN d) \cup {f[1]} |->
                          IF k = f[1] THEN fmul(float(f[2]), rnd[i])
                          ELSE d[k]])

\* Effects._generate_pairs
Effects_generate_pairs(lines, rnd) == PairsFrom(Tail2(lines), 1, rnd, <<>>)

\* Effects.__init__
Effects_init(lines, zero_run) ==
    {IF g.err # "none"
     THEN [err |-> g.err,
           effects |-> [lines |-> lines, rnd |-> g.rnd, sd_pairs |-> <<>>]]
     ELSE LET p == Effects_generate_pairs(lines, g.rnd)
          IN  [err |-> p.err,
               effects |-> [lines |-> lines, rnd |-> g.rnd,
                            sd_pairs |-> p.sd_pairs]] :
        g \in Effects_generate_rnd(zero_run, lines)}

\* _test_repeats that never finds another key
Effects_test_repeats_never(sd_pairs, key, line) == FALSE

\* Effects._test_repeats: TRUE when it calls sys.exit()
Effects_test_repeats(sd_pairs, key, line) ==
    \E k \in (DOMAIN sd_pairs) \ {key} : find(line, k)

\* The loop of get_sd over the keys in the dict's iteration order
RECURSIVE GetSdFrom(_, _, _, _)
GetSdFrom(sd_pairs, order, i, line) ==
    IF i > Len(order)
    THEN [err |-> "none", sd |-> None]
    ELSE IF find(line, order[i])
         THEN IF Effects_test_repeats(sd_pairs, order[i], line)
              THEN [err |-> "SystemExit", sd |-> None]
              ELSE [err |-> "none", sd |-> Some(sd_pairs[order[i]])]
         ELSE GetSdFrom(sd_pairs, order, i + 1, line)

\* Effects.get_sd(line), the dict iterating in the given order
Effects_get_sd(sd_pairs, order, line) == GetSdFrom(sd_pairs, order, 1, line)

\* The orders in which a dict with these keys can iterate
Orders(keys) ==
    {o \in [1..Cardinality(keys) -> keys] :
        \A i, j \in 1..Cardinality(keys) : o[i] = o[j] => i = j}

\* InpFile.vary_line(line_num): the outcome, the lines list after it, the
\* local varied, and get_sd's argument and return value
InpFile_vary_line(lines, sd_pairs, order, line_num) ==
    LET line == lines[line_num + 1]
        r    == Effects_get_sd(sd_pairs, order, line)
        toks == split(line)
        got  == [called |-> TRUE, line |-> line, ret |-> r.sd]
    IN  IF r.err # "none"
        THEN [err |-> r.err, lines |-> lines, varied |-> <<>>, got |-> got]
        ELSE IF ~r.sd.some
        THEN [err |-> "none", lines |-> lines, varied |-> <<>>, got |-> got]
        ELSE IF Len(toks) = 0
        THEN [err |-> "IndexError", lines |-> lines, varied |-> <<>>,
              got |-> got]
        ELSE IF ~CanFloat(toks[1])
        THEN [err |-> "ValueError", lines |-> lines, varied |-> <<>>,
              got |-> got]
        ELSE LET mean   == float(toks[1])
                 varied == mean + fmul(r.sd.val, mean)
             IN  [err |-> "none",
                  lines |-> [lines EXCEPT ![line_num + 1] =
                                format_float(varied, InpWidth, InpPrec)],
                  varied |-> <<varied>>, got |-> got]

NoGot == [called |-> FALSE, line |-> <<>>, ret |-> None]

\* an exception of vary_line caught, the file printed as it is
AfterVary_skip(e, line_num, n, again, print) ==
    IF e # "none" THEN print
    ELSE IF line_num + 1 < n THEN again ELSE print

\* VFile.vary and main: where the run goes after vary_line(line_num)
\* on a file of n lines
AfterVary(e, line_num, n, again, print) ==
    IF e # "none" THEN "abort"
    ELSE IF line_num + 1 < n THEN again ELSE print

\* --------------------------------------------------------------- inputs

Dig(k) == DigitChars[(k % 10) + 1]

\* The k-th data line (from 0) of a generated baseline table: a label and
\* two means
DatLine(k) == <<Dig(k), " ", Dig(k + 5), " ", Dig(3 * k)>>

\* The k-th data line (from 0) of a generated sd table: a label and two
\* standard deviations
SdLine(k) == <<Dig(k), " ", Dig(1 + (k % 3)), " ", "2">>

\* The non-data lines of generated tables: a text line ahead of the data,
\* an empty line between blocks
HeaderLine == <<"x", " ", "1", " ", "2">>
SepLine == <<>>

\* Data lines k..n-1, an empty line after each full block when sep
RECURSIVE TableBody(_, _, _, _)
TableBody(k, n, sep, isSd) ==
    IF k >= n THEN <<>>
    ELSE <<IF isSd THEN SdLine(k) ELSE DatLine(k)>>
         \o (IF sep /\ (k + 1) % BlockSize = 0 THEN <<SepLine>> ELSE <<>>)
         \o TableBody(k + 1, n, sep, isSd)

\* A table file: h text lines, then n data lines
MkTable(h, n, sep, isSd) ==
    [i \in 1..h |-> HeaderLine] \o TableBody(0, n, sep, isSd)

\* The two layouts of generated tables: blocks run on and the format is
\* (1x,2(f4.2,1x)), or an empty line follows each block and the format is
\* (0x,1(f2.0,1x))
Layouts ==
    {[sep |-> FALSE,
      def |-> [lead |-> 1, width |-> 4, prec |-> 2, nsp |-> 1, cols |-> 2]],
     [sep |-> TRUE,
      def |-> [lead |-> 0, width |-> 2, prec |-> 0, nsp |-> 1, cols |-> 1]]}

Clip(n) == IF n < 0 THEN 0 ELSE IF n > MaxData THEN MaxData ELSE n

\* One name of betafiles.txt with its three files; the baseline holds
\* about as many data lines as the sd table
TableInputs ==
    {[mc0 |-> MkTable(hb, Clip(ns + d), l.sep, FALSE),
      sd  |-> MkTable(hs, ns, l.sep, TRUE),
      def |-> l.def] :
        hb \in 0..MaxHeader, hs \in 0..MaxHeader,
        ns \in 0..MaxData, d \in {0 - 1, 0, 1}, l \in Layouts}

\* The lines an sd table is mixed from
MixPool == {SdLine(0), HeaderLine, SepLine}

MixDef == [lead |-> 1, width |-> 4, prec |-> 2, nsp |-> 1, cols |-> 2]

EffectHeader == <<"k", "e", "y", ",", "s", "d">>

\* key,sd lines: A,0.1  B,2  AB,1
PairPool ==
    {<<"A", ",", "0", ".", "1">>, <<"B", ",", "2">>, <<"A", "B", ",", "1">>}

\* Lines of scalar files: 5 A, 2 B, 5 AB, 7
InpLinePool ==
    {<<"5", " ", "A">>, <<"2", " ", "B">>, <<"5", " ", "A", "B">>, <<"7">>}

SeqsUpTo(S, n) == UNION {[1..k -> S] : k \in 0..n}

\* effect_mc.txt: empty, or a header and up to MaxKeys key,sd lines
EffectFiles ==
    {<<>>} \cup {<<EffectHeader>> \o ps : ps \in SeqsUpTo(PairPool, MaxKeys)}

InpFiles == SeqsUpTo(InpLinePool, MaxInpLines)

\* The small tables of runs that go through both loops: 24 one-column data
\* lines each, or an sd table without a data line
SmallLine(k) == <<Dig(k), " ", Dig(k + 1)>>

SmallTables ==
    {[mc0 |-> [i \in 1..(4 * BlockSize) |-> SmallLine(i)],
      sd  |-> [i \in 1..(4 * BlockSize) |-> SmallLine(i + 1)],
      def |-> [lead |-> 0, width |-> 2, prec |-> 0, nsp |-> 1, cols |-> 1]],
     [mc0 |-> <<SmallLine(1)>>,
      sd  |-> <<HeaderLine>>,
      def |-> [lead |-> 0, width |-> 2, prec |-> 0, nsp |-> 1, cols |-> 1]]}

SmallInpFiles ==
    {<<<<"5", " ", "A">>>>, <<<<"5", " ", "A", "B">>, <<"7">>>>}

SmallEffects ==
    <<EffectHeader, <<"A", ",", "0", ".", "1">>, <<"B", ",", "2">>>>

\* ---------------------------------------------------------------- state

VARIABLES
    zero_run,    \* VFile.zero_run, set by main from --zero_run
    beta_files,  \* per name of betafiles.txt: its _mc0 lines, sd lines, format
    inp_files,   \* per name of the inpfiles argument: its _mc0.inp lines
    effect_mc,   \* the lines of effect_mc.txt
    pc,          \* where main is
    fidx,        \* index (from 1) of fname in the list being looped over
    line_num,    \* vary's loop variable
    lines,       \* VFile.lines of the file object in hand
    frmt_str,    \* DatFile.frmt_str, as the template _parse_format extracts
    sdfile,      \* DatFile.sdfile
    effects,     \* InpFile.effects: lines, rnd, sd_pairs
    varied,      \* the local varied of the last vary_line call
    sel,         \* what the last sd_list call of the file in hand looked up
    got,         \* the last get_sd call: its argument, what it returned
    dat_mc,      \* the _mc.dat files: opened, and the lines printed
    inp_mc,      \* the _mc.inp files: opened, and the lines printed
    err          \* "none", or the exception that ended the run

vars == <<zero_run, beta_files, inp_files, effect_mc, pc, fidx, line_num,
          lines, frmt_str, sdfile, effects, varied, sel, got, dat_mc, inp_mc,
          err>>

inputs == <<zero_run, beta_files, inp_files, effect_mc>>

NoSDFile == [lines |-> <<>>, block_nums |-> <<>>, num_blocks |-> 0,
             cols |-> None, rnd |-> <<>>]

NoFrmt == [lead |-> 0, width |-> 0, prec |-> 0, nsp |-> 0, cols |-> 0]

NoEffects == [lines |-> <<>>, rnd |-> <<>>, sd_pairs |-> <<>>]

\* An output file: whether open() created it, whether print_mc ran, its lines
Closed == [opened |-> FALSE, printed |-> FALSE, lines |-> <<>>]
Opened == [opened |-> TRUE, printed |-> FALSE, lines |-> <<>>]

\* Where main goes once the loop over beta_files is over
AfterBeta == IF Len(inp_files) > 0 THEN "inp_init" ELSE "done"

\* The state main starts in, given the run's inputs
Start ==
    /\ pc = IF Len(beta_files) > 0 THEN "dat_init" ELSE AfterBeta
    /\ fidx = 1
    /\ line_num = 0
    /\ lines = <<>>
    /\ frmt_str = NoFrmt
    /\ sdfile = NoSDFile
    /\ effects = NoEffects
    /\ varied = <<>>
    /\ sel = NoSel
    /\ got = NoGot
    /\ dat_mc = [i \in 1..Len(beta_files) |-> Closed]
    /\ inp_mc = [i \in 1..Len(inp_files) |-> Closed]
    /\ err = "none"

\* -------------------------------------------------------------- actions

\* datfile = DatFile(fname)
DatConstruct ==
    /\ pc = "dat_init"
    /\ dat_mc' = [dat_mc EXCEPT ![fidx] = Opened]
    /\ lines' = beta_files[fidx].mc0
    /\ \E r \in SDFile_init(beta_files[fidx].sd, zero_run) :
          /\ sdfile' = r.sdfile
          /\ err' = r.err
          /\ IF r.err # "none"
             THEN pc' = "abort" /\ frmt_str' = NoFrmt
             ELSE /\ frmt_str' = beta_files[fidx].def
                  /\ pc' = IF Len(beta_files[fidx].mc0) > 0 THEN "dat_vary"
                           ELSE "dat_print"
    /\ line_num' = 0
    /\ varied' = <<>>
    /\ sel' = NoSel
    /\ UNCHANGED <<inputs, fidx, effects, got, inp_mc>>

\* one iteration of datfile.vary(): self.vary_line(line_num)
DatVaryLine ==
    /\ pc = "dat_vary"
    /\ line_num < Len(lines)
    /\ LET r == DatFile_vary_line(lines, sdfile, frmt_str, line_num)
       IN  /\ lines' = r.lines
           /\ varied' = r.varied
           /\ sel' = r.sel
           /\ err' = r.err
           /\ line_num' = IF r.err # "none" THEN line_num ELSE line_num + 1
           /\ pc' = AfterVary(r.err, line_num, Len(lines), "dat_vary",
                              "dat_print")
    /\ UNCHANGED <<inputs, fidx, frmt_str, sdfile, effects, got, dat_mc,
                   inp_mc>>

\* datfile.print_mc(), then the next fname
DatPrint ==
    /\ pc = "dat_print"
    /\ dat_mc' = [dat_mc EXCEPT ![fidx] = [opened |-> TRUE, printed |-> TRUE,
                                          lines |-> lines]]
    /\ IF fidx < Len(beta_files)
       THEN pc' = "dat_init" /\ fidx' = fidx + 1
       ELSE pc' = AfterBeta /\ fidx' = 1
    /\ UNCHANGED <<inputs, line_num, lines, frmt_str, sdfile, effects,
                   varied, sel, got, inp_mc, err>>

\* inpfile = InpFile(fname)
InpConstruct ==
    /\ pc = "inp_init"
    /\ inp_mc' = [inp_mc EXCEPT ![fidx] = Opened]
    /\ lines' = inp_files[fidx]
    /\ \E r \in Effects_init(effect_mc, zero_run) :
          /\ effects' = r.effects
          /\ err' = r.err
          /\ pc' = IF r.err # "none" THEN "abort"
                   ELSE IF Len(inp_files[fidx]) > 0 THEN "inp_vary"
                   ELSE "inp_print"
    /\ line_num' = 0
    /\ varied' = <<>>
    /\ got' = NoGot
    /\ sel' = NoSel
    /\ UNCHANGED <<inputs, fidx, frmt_str, sdfile, dat_mc>>

\* one iteration of inpfile.vary(): self.vary_line(line_num)
InpVaryLine ==
    /\ pc = "inp_vary"
    /\ line_num < Len(lines)
    /\ \E order \in Orders(DOMAIN effects.sd_pairs) :
          LET r == InpFile_vary_line(lines, effects.sd_pairs, order, line_num)
          IN  /\ lines' = r.lines
              /\ varied' = r.varied
              /\ got' = r.got
              /\ err' = r.err
              /\ line_num' = IF r.err # "none" THEN line_num
                             ELSE line_num + 1
              /\ pc' = AfterVary(r.err, line_num, Len(lines), "inp_vary",
                                 "inp_print")
    /\ UNCHANGED <<inputs, fidx, frmt_str, sdfile, effects, sel, dat_mc,
                   inp_mc>>

\* inpfile.print_mc(), then the next fname
InpPrint ==
    /\ pc = "inp_print"
    /\ inp_mc' = [inp_mc EXCEPT ![fidx] = [opened |-> TRUE, printed |-> TRUE,
                                          lines |-> lines]]
    /\ IF fidx < Len(inp_files)
       THEN pc' = "inp_init" /\ fidx' = fidx + 1
       ELSE pc' = "done" /\ fidx' = fidx
    /\ UNCHANGED <<inputs, line_num, lines, frmt_str, sdfile, effects,
                   varied, sel, got, dat_mc, err>>

Next ==
    \/ DatConstruct
    \/ DatVaryLine
    \/ DatPrint
    \/ InpConstruct
    \/ InpVaryLine
    \/ InpPrint


\* A run over one table name and no scalar name
InitTables ==
    /\ zero_run \in BOOLEAN
    /\ beta_files \in {<<t>> : t \in TableInputs}
    /\ inp_files = <<>>
    /\ effect_mc = <<>>
    /\ Start

\* A run over no table name and one scalar name
InitScalars ==
    /\ zero_run \in BOOLEAN
    /\ beta_files = <<>>
    /\ inp_files \in {<<f>> : f \in InpFiles}
    /\ effect_mc \in EffectFiles
    /\ Start

\* A run over one table name whose sd table is any mix of up to MaxMix
\* data, text and empty lines, the baseline laid out like it
InitMixes ==
    /\ zero_run = FALSE
    /\ beta_files \in {<<[mc0 |-> m, sd |-> m, def |-> MixDef]>> :
                          m \in SeqsUpTo(MixPool, MaxMix)}
    /\ inp_files = <<>>
    /\ effect_mc = <<>>
    /\ Start

\* A run over several names of each kind
InitBoth ==
    /\ zero_run \in BOOLEAN
    /\ beta_files \in SeqsUpTo(SmallTables, MaxBeta)
    /\ inp_files \in SeqsUpTo(SmallInpFiles, MaxInp)
    /\ effect_mc = SmallEffects
    /\ Start

Init == InitTables \/ InitMixes \/ InitScalars \/ InitBoth

Spec == Init /\ [][Next]_vars


\* ---------------------------------------------------------------- claims

\* A line whose first non-blank character is a decimal digit
DataText(line) ==
    \E i \in 1..Len(line) :
        isdigit(line[i]) /\ \A j \in 1..(i - 1) : line[j] = " "

\* Number of data lines among the first i lines
DataCount(ls, i) == Cardinality({j \in 1..i : DataText(ls[j])})

\* key occurs in line
Substr(line, key) ==
    \E a \in 1..(Len(line) - Len(key) + 1) :
        SubSeq(line, a, a + Len(key) - 1) = key

\* The keys of the effects table that occur in line
Matching(line) == {k \in DOMAIN effects.sd_pairs : Substr(line, k)}

\* The last sd_list call was made by the table file in hand
InTable == sel.called /\ pc \in {"dat_vary", "dat_print", "abort"}

\* The baseline and sd lines of the table file in hand
Mc0 == beta_files[fidx].mc0
Sd0 == beta_files[fidx].sd

\* C1: once print_mc has run for a table, the output has as many lines as
\* the baseline and every baseline line that is not a data line stands in it
\* unchanged at the same position, in zero-run and in random mode.
C1_NonDataPassthrough ==
    \A f \in 1..Len(beta_files) :
        dat_mc[f].printed =>
            /\ Len(dat_mc[f].lines) = Len(beta_files[f].mc0)
            /\ \A i \in 1..Len(beta_files[f].mc0) :
                   ~DataText(beta_files[f].mc0[i]) =>
                       dat_mc[f].lines[i] = beta_files[f].mc0[i]

\* C1 witness: a printed table in random mode that holds a text line, an
\* empty line and a data line that was rewritten.
C1_Witness ==
    \E f \in 1..Len(beta_files) :
        /\ dat_mc[f].printed
        /\ ~zero_run
        /\ \E i \in 1..Len(beta_files[f].mc0) : beta_files[f].mc0[i] = HeaderLine
        /\ \E i \in 1..Len(beta_files[f].mc0) : beta_files[f].mc0[i] = SepLine
        /\ \E i \in 1..Len(beta_files[f].mc0) :
               /\ DataText(beta_files[f].mc0[i])
               /\ dat_mc[f].lines[i] # beta_files[f].mc0[i]

\* C2: get_sd(line) returns None when no key occurs in the line, returns the
\* coefficient of the key when exactly one occurs, and ends the run when two
\* or more occur, whatever the order the keys are scanned in.
C2_GetSdOutcome ==
    got.called =>
        LET M == Matching(got.line)
        IN  /\ M = {} => (got.ret = None /\ err = "none")
            /\ Cardinality(M) = 1 =>
                   /\ got.ret = Some(effects.sd_pairs[CHOOSE k \in M : TRUE])
                   /\ err # "SystemExit"
            /\ Cardinality(M) >= 2 => (err = "SystemExit" /\ pc = "abort")

\* C2 witness: a table of two keys, a line holding exactly one of them, its
\* coefficient returned.
C2_Witness ==
    /\ got.called
    /\ Cardinality(DOMAIN effects.sd_pairs) = 2
    /\ Cardinality(Matching(got.line)) = 1
    /\ got.ret.some
    /\ got.ret.val # 0

\* C3: in zero-run mode a run over a table whose sd table is laid out like
\* its baseline does not abort, every value a table line is varied to equals
\* its baseline mean, and every value a scalar line is varied to equals the
\* line's leading value.
Aligned(t) ==
    /\ Len(t.mc0) = Len(t.sd)
    /\ \E i \in 1..Len(t.sd) : DataText(t.sd[i])
    /\ \A i \in 1..Len(t.mc0) :
           /\ DataText(t.mc0[i]) <=> DataText(t.sd[i])
           /\ Len(split(t.mc0[i])) = Len(split(t.sd[i]))
           /\ DataText(t.mc0[i]) => t.def.cols <= Len(split(t.mc0[i])) - 1

C3_ZeroRunIdempotent ==
    zero_run =>
        /\ ~(/\ pc = "abort"
             /\ fidx <= Len(beta_files)
             /\ dat_mc[fidx] = Opened
             /\ Aligned(beta_files[fidx]))
        /\ (InTable /\ sel.found /\ err = "none") =>
               \A c \in 1..Len(varied) :
                   varied[c] = float(split(Mc0[sel.line_num + 1])[c + 1])
        /\ (got.called /\ got.ret.some /\ err = "none") =>
               varied = <<float(split(got.line)[1])>>

\* C4: an sd table of exactly 12 data lines has block_count 2 and a matrix
\* of 1 row, and each of its data lines resolves to matrix row 0.
C4_BlockParityLaw ==
    (sdfile # NoSDFile /\ DataCount(sdfile.lines, Len(sdfile.lines)) = 12) =>
        /\ sdfile.num_blocks = 2
        /\ Len(sdfile.rnd) = 1
        /\ (InTable /\ sel.found /\ DataText(sdfile.lines[sel.line_num + 1]))
               => sel.row = 0

\* C5: a scalar line that holds two or more keys ends the whole run there:
\* nothing more can happen, the line and the lines after it are as read,
\* nothing was printed to the file's output, and no later name was opened.
C5_AmbiguousKeyEndsRun ==
    (got.called /\ Cardinality(Matching(got.line)) >= 2) =>
        /\ err = "SystemExit"
        /\ pc = "abort"
        /\ ~ENABLED Next
        /\ inp_mc[fidx] = Opened
        /\ \A i \in (line_num + 1)..Len(lines) : lines[i] = inp_files[fidx][i]
        /\ \A f \in (fidx + 1)..Len(inp_files) : inp_mc[f] = Closed

\* C5 witness: the run ended on an ambiguous line with a line still to vary
\* in that file and a name still to process.
C5_Witness ==
    /\ got.called
    /\ Cardinality(Matching(got.line)) >= 2
    /\ err = "SystemExit"
    /\ line_num + 1 < Len(lines)
    /\ fidx < Len(inp_files)

\* C6: after SDFile indexes a table, the k-th data line (from 0) has block
\* number floor(k / 6), every other line has -1, and num_blocks is the
\* number of data lines divided by 6, rounded down.
C6_BlockNumbers ==
    sdfile # NoSDFile =>
        LET ls     == sdfile.lines
            data   == [j \in 1..Len(ls) |-> DataText(ls[j])]
            ord(i) == Cardinality({j \in 1..(i - 1) : data[j]})
        IN  /\ Len(sdfile.block_nums) = Len(ls)
            /\ \A i \in 1..Len(ls) :
                   sdfile.block_nums[i] =
                       IF data[i] THEN ord(i) \div BlockSize ELSE 0 - 1
            /\ sdfile.num_blocks = ord(Len(ls) + 1) \div BlockSize

\* C6 witness: an indexed table whose data-line count is not a multiple of
\* 6, with lines of block 2 and lines without a block number.
C6_Witness ==
    /\ sdfile # NoSDFile
    /\ DataCount(sdfile.lines, Len(sdfile.lines)) % BlockSize # 0
    /\ \E i \in 1..Len(sdfile.lines) : sdfile.block_nums[i] = 2
    /\ \E i \in 1..Len(sdfile.lines) : sdfile.block_nums[i] = 0 - 1

\* C6 witness for the free mixes: a line without a block number between
\* two data lines of block 0.
C6_MixWitness ==
    /\ sdfile # NoSDFile
    /\ \E i \in 2..(Len(sdfile.lines) - 1) :
           /\ sdfile.block_nums[i] = 0 - 1
           /\ sdfile.block_nums[i - 1] = 0
           /\ sdfile.block_nums[i + 1] = 0

\* The key field and the sd field of the last key,sd line for key k
PairLine(k) ==
    CHOOSE j \in 2..Len(effects.lines) :
        /\ split_comma(effects.lines[j])[1] = k
        /\ \A m \in (j + 1)..Len(effects.lines) :
               split_comma(effects.lines[m])[1] # k

\* C7: a varied table line holds mean + raw_sd * coefficient per column,
\* raw_sd from the same line and column of the sd table and the coefficient
\* from the selected matrix row; a varied scalar line holds
\* mean + coefficient * mean, the coefficient the matched key's raw sd times
\* that key's sample.
C7_AdditiveAndMultiplicative ==
    /\ (InTable /\ sel.found /\ err = "none") =>
           LET means == Tail(split(Mc0[sel.line_num + 1]))
               sds   == Tail2(split(Sd0[sel.line_num + 1]))
           IN  /\ Len(varied) =
                      IF Len(means) < Len(sds) THEN Len(means) ELSE Len(sds)
               /\ \A c \in 1..Len(varied) :
                      varied[c] = float(means[c])
                          + fmul(float(sds[c]), sdfile.rnd[sel.row + 1][c])
    /\ (got.called /\ got.ret.some /\ err = "none") =>
           LET k    == CHOOSE key \in Matching(got.line) : TRUE
               j    == PairLine(k)
               coef == fmul(float(split_comma(effects.lines[j])[2]),
                            effects.rnd[j - 1])
               mean == float(split(got.line)[1])
           IN  varied = <<mean + fmul(coef, mean)>>

\* C7 witness: a scalar line varied by a non-zero coefficient in a run that
\* printed a table with a varied data line before.
C7_Witness ==
    /\ got.called /\ got.ret.some /\ err = "none"
    /\ got.ret.val # 0
    /\ varied # <<float(split(got.line)[1])>>
    /\ \E f \in 1..Len(beta_files) :
           dat_mc[f].printed /\ dat_mc[f].lines # beta_files[f].mc0

\* C7 witness in the table: a two-column data line varied with two
\* different coefficients.
C7_TableWitness ==
    /\ InTable /\ sel.found /\ err = "none"
    /\ Len(varied) = 2
    /\ sdfile.rnd[sel.row + 1][1] # sdfile.rnd[sel.row + 1][2]

NoDataLines(ls) == \A i \in 1..Len(ls) : ~DataText(ls[i])

\* C8: building the perturbation state of an sd table without a data line
\* ends the run with an error before any baseline line is varied or any
\* output line written, in zero-run and in random mode.
C8_EmptyTableFatal ==
    \A f \in 1..Len(beta_files) :
        (dat_mc[f].opened /\ NoDataLines(beta_files[f].sd)) =>
            /\ err = "TypeError"
            /\ pc = "abort"
            /\ ~ENABLED Next
            /\ fidx = f
            /\ dat_mc[f] = Opened
            /\ lines = beta_files[f].mc0
            /\ ~sel.called
            /\ varied = <<>>
            /\ \A g \in (f + 1)..Len(beta_files) : dat_mc[g] = Closed
            /\ \A g \in 1..Len(inp_files) : inp_mc[g] = Closed

\* C8 witness: the run ended on an sd table without data lines whose
\* baseline holds a data line, with scalar names still to process.
C8_Witness ==
    /\ err = "TypeError"
    /\ fidx <= Len(beta_files)
    /\ NoDataLines(Sd0)
    /\ \E i \in 1..Len(Mc0) : DataText(Mc0[i])
    /\ Len(inp_files) > 0

C10_RowsZeroOne ==
    (InTable /\ sel.found) =>
        /\ sel.row \in {0, 1}
        /\ sel.row = 0 <=> (\E h \in (0 - 1)..MaxData : sel.block_num = 2 * h)
        /\ sdfile.num_blocks >= 4 => sel.row + 1 <= Len(sdfile.rnd)

\* C10 witness: a line of block 3 read its coefficients from row 1 of a
\* two-row matrix.
C10_Witness ==
    /\ InTable /\ sel.found /\ sel.read
    /\ sdfile.num_blocks >= 4
    /\ sel.block_num = 3
    /\ sel.row = 1
    /\ Len(sdfile.rnd) = 2

====
